---- MODULE Spec2Model ----
(***************************************************************************)
(* Model of the natural-language-to-Cypher pipeline:                       *)
(*   src/src/nl_to_cypher.py   NLToCypherQuery   (orchestrator, cache)     *)
(*   src/src/graph_service.py  GraphService      (schema, execution)       *)
(*   src/src/config.py         Config            (MAX_QUERY_RESULTS)       *)
(*                                                                         *)
(* A Python string is modelled as a sequence of text pieces; the string    *)
(* is the concatenation of the pieces.  The alphabet of pieces (Upper's    *)
(* domain) is chosen so that every substring or prefix test of the code    *)
(* is decided by a test on single pieces.  A Python dict that is a result  *)
(* row is a sequence of [k, v] pairs in insertion order.  The piece written *)
(* ''' stands for a markdown code fence of three backquotes.               *)
(***************************************************************************)
EXTENDS Integers, Sequences, FiniteSets, TLC

VARIABLES
    queryCache,     \* NLToCypherQuery._query_cache: trimmed question -> outcome
    schemaCache,    \* GraphService._schema_cache: [isNone, val]
    lastOp,         \* the operation that ran last
    lastQuestion,   \* its question argument, as passed
    lastUseCache,   \* its use_cache argument
    lastRet,        \* what it returned
    lastStages,     \* the pipeline methods it entered, in order
    lastCalls,      \* the database / language-model calls it made, in order
    lastArgs,       \* for an operation of GraphService called by itself: its
                    \* arguments and what the database had to answer
    dropped         \* history: the keys the last operation, or the one before
                    \* a query() that is the last, removed by clear_cache()

vars == <<queryCache, schemaCache, lastOp, lastQuestion, lastUseCache,
          lastRet, lastStages, lastCalls, lastArgs, dropped>>

(***************************************************************************)
(* Text                                                                    *)
(***************************************************************************)

\* str.upper() on one piece.
Upper(t) ==
    CASE t = "match"          -> "MATCH"
      [] t = "return"         -> "RETURN"
      [] t = "limit"          -> "LIMIT"
      [] t = "With"           -> "WITH"
      [] t = "n.credit_limit" -> "N.CREDIT_LIMIT"
      [] t = "n.returned"     -> "N.RETURNED"
      [] t = "n"              -> "N"
      [] t = "(n)"            -> "(N)"
      [] t = "Here:"          -> "HERE:"
      [] t = "total_count"    -> "TOTAL_COUNT"
      [] t = "a"              -> "A"
      [] t = "Display_Name"   -> "DISPLAY_NAME"
      [] t = "name"           -> "NAME"
      [] t = "'''cypher"      -> "'''CYPHER"
      [] t = "Matching"       -> "MATCHING"
      [] t = "skip"           -> "SKIP"
      [] t = "nodes:"         -> "NODES:"
      [] OTHER                -> t

\* The clause keywords of _clean_cypher_response.
ClauseKeywords ==
    {"MATCH", "RETURN", "CREATE", "MERGE", "DELETE", "SET", "REMOVE", "WITH",
     "UNWIND", "CALL"}

\* u.startswith(k) for an upper-cased piece u and some clause keyword k.
PieceStartsWithKeyword(u) == u \in ClauseKeywords \cup {"MATCHING"}

\* sub in u, for an upper-cased piece u.
PieceContains(u, sub) ==
    CASE sub = "LIMIT"  -> u \in {"LIMIT", "N.CREDIT_LIMIT"}
      [] sub = "RETURN" -> u \in {"RETURN", "N.RETURNED"}
      [] sub = "COUNT"  -> u \in {"COUNT", "TOTAL_COUNT"}
      [] OTHER          -> u = sub

\* sub in s.upper()
UpperContains(s, sub) == \E i \in 1..Len(s) : PieceContains(Upper(s[i]), sub)

IsSpace(t) == t \in {" ", "\n"}

RECURSIVE LStrip(_)
LStrip(s) == IF s # <<>> /\ IsSpace(Head(s)) THEN LStrip(Tail(s)) ELSE s

RECURSIVE RStrip(_)
RStrip(s) ==
    IF s # <<>> /\ IsSpace(s[Len(s)]) THEN RStrip(SubSeq(s, 1, Len(s) - 1)) ELSE s

\* str.strip()
Strip(s) == RStrip(LStrip(s))

\* str.split('\n'): always at least one line.
RECURSIVE SplitLines(_)
SplitLines(s) ==
    IF \A i \in 1..Len(s) : s[i] # "\n" THEN <<s>>
    ELSE LET k == CHOOSE i \in 1..Len(s) :
                      s[i] = "\n" /\ \A j \in 1..(i - 1) : s[j] # "\n"
         IN  <<SubSeq(s, 1, k - 1)>> \o SplitLines(SubSeq(s, k + 1, Len(s)))

\* '\n'.join(lines)
RECURSIVE JoinLines(_)
JoinLines(lines) ==
    IF lines = <<>> THEN <<>>
    ELSE IF Len(lines) = 1 THEN lines[1]
    ELSE lines[1] \o <<"\n">> \o JoinLines(Tail(lines))

Digit(d) ==
    CASE d = 0 -> "0" [] d = 1 -> "1" [] d = 2 -> "2" [] d = 3 -> "3"
      [] d = 4 -> "4" [] d = 5 -> "5" [] d = 6 -> "6" [] d = 7 -> "7"
      [] d = 8 -> "8" [] d = 9 -> "9"

Digits == {"0", "1", "2", "3", "4", "5", "6", "7", "8", "9"}

DigitValue(t) == CHOOSE d \in 0..9 : Digit(d) = t

\* str(n) for a natural number n: its decimal digits.
RECURSIVE FormatInt(_)
FormatInt(n) == IF n < 10 THEN <<Digit(n)>> ELSE FormatInt(n \div 10) \o <<Digit(n % 10)>>

\* The number a run of digit pieces denotes.
RECURSIVE ParseInt(_)
ParseInt(ds) ==
    IF ds = <<>> THEN 0
    ELSE 10 * ParseInt(SubSeq(ds, 1, Len(ds) - 1)) + DigitValue(ds[Len(ds)])

Min(a, b) == IF a < b THEN a ELSE b

\* Python's Optional values.
None == [isNone |-> TRUE, val |-> <<>>]
Some(v) == [isNone |-> FALSE, val |-> v]

(***************************************************************************)
(* NLToCypherQuery._clean_cypher_response                                  *)
(***************************************************************************)

FencePieces == {"'''", "'''cypher"}

\* "```" in text
HasFence(s) == \E i \in 1..Len(s) : s[i] \in FencePieces

\* line.strip().startswith('```')
LineStartsWithFence(line) ==
    LET s == Strip(line) IN s # <<>> /\ s[1] \in FencePieces

\* line.strip().upper().startswith((MATCH, RETURN, ...))
LineStartsWithKeyword(line) ==
    LET s == Strip(line) IN s # <<>> /\ PieceStartsWithKeyword(Upper(s[1]))

\* The loop of lines 99-104: fence lines toggle in_code_block and are
\* skipped; a line is kept inside a block, or outside one when it starts
\* with a clause keyword.
RECURSIVE FenceFilter(_, _)
FenceFilter(lines, inBlock) ==
    IF lines = <<>> THEN <<>>
    ELSE IF LineStartsWithFence(Head(lines))
         THEN FenceFilter(Tail(lines), ~inBlock)
         ELSE IF inBlock \/ LineStartsWithKeyword(Head(lines))
              THEN <<Head(lines)>> \o FenceFilter(Tail(lines), inBlock)
              ELSE FenceFilter(Tail(lines), inBlock)

\* Lines 94-106.
StripFences(text) ==
    IF HasFence(text) THEN Strip(JoinLines(FenceFilter(SplitLines(text), FALSE)))
    ELSE text

\* A loop of lines 113-117 that keeps the keyword lines only.
RECURSIVE KeywordLinesOnly(_)
KeywordLinesOnly(lines) ==
    IF lines = <<>> THEN <<>>
    ELSE IF LineStartsWithKeyword(Head(lines))
    THEN <<Head(lines)>> \o KeywordLinesOnly(Tail(lines))
    ELSE KeywordLinesOnly(Tail(lines))

\* The loop of lines 113-117: the lines from the first keyword line on.
RECURSIVE FromFirstKeyword(_)
FromFirstKeyword(lines) ==
    IF lines = <<>> THEN <<>>
    ELSE IF LineStartsWithKeyword(Head(lines)) THEN lines
    ELSE FromFirstKeyword(Tail(lines))

CleanCypherResponse(text) ==
    LET unfenced == StripFences(text)
        kept     == FromFirstKeyword(SplitLines(unfenced))
    IN  IF kept # <<>> THEN Strip(JoinLines(kept)) ELSE Strip(unfenced)

(***************************************************************************)
(* Collaborators: what a call to the database or the language model gives. *)
(***************************************************************************)

\* The call raised an exception whose str() is the piece e.
Raise(e) == [raised |-> TRUE, none |-> FALSE, detail |-> e, value |-> <<>>]
\* The call returned v.
Return(v) == [raised |-> FALSE, none |-> FALSE, detail |-> "", value |-> v]
\* The call returned None.
Nothing == [raised |-> FALSE, none |-> TRUE, detail |-> "", value |-> <<>>]
\* The answer to a call that is never made.
Unused == Raise("unused")

\* A collaborator call as an instrumented collaborator records it: site is
\* the method that makes it, arg what it passes; raised, none, detail and
\* value are what the collaborator answered.
Call(site, target, op, arg, res, value) ==
    [site |-> site, target |-> target, op |-> op, arg |-> arg,
     raised |-> res.raised, none |-> res.none, detail |-> res.detail,
     value |-> value]
SchemaCall(res) == Call("get_schema", "db", "schema", <<>>, res, res.value)
DbQueryCall(site, text, res, rows) == Call(site, "db", "query", text, res, rows)
LlmCall(site, prompt, res) == Call(site, "llm", "invoke", prompt, res, res.value)

\* cypher_prompt.format(schema=..., question=...)
CypherPrompt(schema, question) ==
    [template |-> "cypher", schema |-> schema, question |-> question]

\* qa_prompt.format(question=..., query=..., context=...)
QaPrompt(question, query, context) ==
    [template |-> "qa", question |-> question, query |-> query, context |-> context]

\* The longest run of digit pieces s starts with.
RECURSIVE DigitRun(_)
DigitRun(s) ==
    IF s # <<>> /\ Head(s) \in Digits THEN <<Head(s)>> \o DigitRun(Tail(s)) ELSE <<>>

\* The places of text where a LIMIT clause starts: the word LIMIT in any
\* case, white space, a number.
LimitPositions(text) ==
    {i \in 1..Len(text) :
        /\ Upper(text[i]) = "LIMIT"
        /\ i < Len(text)
        /\ IsSpace(text[i + 1])
        /\ DigitRun(LStrip(SubSeq(text, i + 1, Len(text)))) # <<>>}

HasLimitClause(text) == LimitPositions(text) # {}

\* The number of the first LIMIT clause of text.
LimitValue(text) ==
    LET i == CHOOSE k \in LimitPositions(text) : \A j \in LimitPositions(text) : k <= j
    IN  ParseInt(DigitRun(LStrip(SubSeq(text, i + 1, Len(text)))))

HasReturnClause(text) == \E i \in 1..Len(text) : Upper(text[i]) = "RETURN"

\* The places of text where a SKIP clause starts.
SkipPositions(text) ==
    {i \in 1..Len(text) :
        /\ Upper(text[i]) = "SKIP"
        /\ i < Len(text)
        /\ IsSpace(text[i + 1])
        /\ DigitRun(LStrip(SubSeq(text, i + 1, Len(text)))) # <<>>}

\* The number of the first SKIP clause of text, 0 without one.
SkipValue(text) ==
    IF SkipPositions(text) = {} THEN 0
    ELSE LET i == CHOOSE k \in SkipPositions(text) : \A j \in SkipPositions(text) : k <= j
         IN  ParseInt(DigitRun(LStrip(SubSeq(text, i + 1, Len(text)))))

\* The rows of table the database returns for text: a SKIP clause drops the
\* first rows, a LIMIT clause cuts the rest, nothing else does.
Neo4jRows(text, table) ==
    IF HasLimitClause(text)
    THEN SubSeq(table, SkipValue(text) + 1,
                Min(Len(table), SkipValue(text) + LimitValue(text)))
    ELSE SubSeq(table, SkipValue(text) + 1, Len(table))

\* What Neo4jGraph.query(text) returns when the database answers db (the
\* rows the query matches, None, or an exception): the rows, or no rows.
Returned(text, db) ==
    IF db.raised \/ db.none THEN <<>> ELSE Neo4jRows(text, db.value)

(***************************************************************************)
(* Config                                                                  *)
(***************************************************************************)

MAX_QUERY_RESULTS == 100

(***************************************************************************)
(* GraphService                                                            *)
(***************************************************************************)

\* A get_schema() that reads the schema from the database on every call.
FetchSchemaAlways(cache, fetch) ==
    IF fetch.raised
    THEN [raised |-> TRUE, detail |-> fetch.detail, value |-> <<>>,
          cache |-> cache, calls |-> <<SchemaCall(fetch)>>]
    ELSE [raised |-> FALSE, detail |-> "", value |-> fetch.value,
          cache |-> Some(fetch.value), calls |-> <<SchemaCall(fetch)>>]

\* get_schema(): cache is _schema_cache, fetch what reading graph.schema gives.
GetSchema(cache, fetch) ==
    IF cache.isNone
    THEN IF fetch.raised
         THEN [raised |-> TRUE, detail |-> fetch.detail, value |-> <<>>,
               cache |-> cache, calls |-> <<SchemaCall(fetch)>>]
         ELSE [raised |-> FALSE, detail |-> "", value |-> fetch.value,
               cache |-> Some(fetch.value), calls |-> <<SchemaCall(fetch)>>]
    ELSE [raised |-> FALSE, detail |-> "", value |-> cache.val,
          cache |-> cache, calls |-> <<>>]

\* refresh_schema(): line 63 discards the cache, line 64 is get_schema().
RefreshedSchema(fetch) == GetSchema(None, fetch)

\* The test of line 74.
NeedsLimit(cypher_query) ==
    ~UpperContains(cypher_query, "LIMIT") /\ UpperContains(cypher_query, "RETURN")

\* Lines 74-75: the text execute_cypher sends to the database.
WithResultLimit(cypher_query) ==
    IF NeedsLimit(cypher_query)
    THEN cypher_query \o <<" ", "LIMIT", " ">> \o FormatInt(MAX_QUERY_RESULTS)
    ELSE cypher_query

\* execute_cypher(cypher_query): db is what graph.query gives (the matched
\* rows, or an exception).  The value is Optional[List[Dict]].
ExecuteCypher(cypher_query, db) ==
    IF cypher_query = <<>> \/ Strip(cypher_query) = <<>>
    THEN [value |-> None, calls |-> <<>>]
    ELSE [value |-> IF db.raised \/ db.none THEN None
                    ELSE Some(Returned(WithResultLimit(cypher_query), db)),
          calls |-> <<DbQueryCall("execute_cypher", WithResultLimit(cypher_query), db,
                                  Returned(WithResultLimit(cypher_query), db))>>]

ValidMessage == <<"Query syntax is valid">>

\* validate_cypher_syntax(cypher_query): explain is what graph.query gives
\* for the EXPLAIN query.
ValidateCypherSyntax(cypher_query, explain) ==
    [value |-> IF explain.raised
               THEN [valid |-> FALSE, message |-> <<explain.detail>>]
               ELSE [valid |-> TRUE, message |-> ValidMessage],
     calls |-> <<DbQueryCall("validate_cypher_syntax", <<"EXPLAIN", " ">> \o cypher_query,
                             explain, <<>>)>>]

(***************************************************************************)
(* NLToCypherQuery: the steps of the pipeline.  Every step gives           *)
(* [raised, detail, value, calls]: raised says that an exception left the  *)
(* method, calls are the collaborator calls it made.                       *)
(***************************************************************************)

Done(v, calls) == [raised |-> FALSE, detail |-> "", value |-> v, calls |-> calls]
Thrown(e, calls) == [raised |-> TRUE, detail |-> e, value |-> <<>>, calls |-> calls]

\* _generate_cypher(question): value is Optional[str]; cache is the schema
\* cache after the call.
GenerateCypher(question, cache, fetch, llm) ==
    LET sch == GetSchema(cache, fetch)
    IN  IF sch.raised
        THEN [raised |-> FALSE, detail |-> "", value |-> None,
              calls |-> sch.calls, cache |-> sch.cache]
        ELSE LET calls == sch.calls \o <<LlmCall("_generate_cypher",
                                               CypherPrompt(sch.value, question), llm)>>
             IN  IF llm.raised \/ llm.none
                 THEN [raised |-> FALSE, detail |-> "", value |-> None,
                       calls |-> calls, cache |-> sch.cache]
                 ELSE [raised |-> FALSE, detail |-> "",
                       value |-> Some(CleanCypherResponse(Strip(llm.value))),
                       calls |-> calls, cache |-> sch.cache]

\* _validate_cypher(cypher_query)
ValidateCypher(cypher_query, explain) ==
    LET v == ValidateCypherSyntax(cypher_query, explain)
    IN  Done(v.value, v.calls)

\* An _execute_query without its handler, over an execute_cypher without
\* its own: the exception of the database leaves the method.
ExecuteQueryUnguarded(cypher_query, db) ==
    IF db.raised
    THEN Thrown(db.detail, ExecuteCypher(cypher_query, db).calls)
    ELSE Done(Returned(WithResultLimit(cypher_query), db),
              ExecuteCypher(cypher_query, db).calls)

\* _execute_query(cypher_query): a None from execute_cypher becomes [].
ExecuteQuery(cypher_query, db) ==
    LET r == ExecuteCypher(cypher_query, db)
    IN  Done(IF r.value.isNone THEN <<>> ELSE r.value.val, r.calls)

NoDataMessage ==
    <<"No data found matching your query. The database might not contain the requested information, or the query might need to be refined.">>

\* str(value) of a result value: an int or a string.
Str(v) == IF v.isInt THEN FormatInt(v.n) ELSE v.s

\* A field name that is the whole column name.
WholeKey(key) == key

\* key.split('.')[-1] if '.' in key else key
FieldName(key) ==
    IF \E i \in 1..Len(key) : key[i] = "."
    THEN LET k == CHOOSE i \in 1..Len(key) :
                      key[i] = "." /\ \A j \in (i + 1)..Len(key) : key[j] # "."
         IN  SubSeq(key, k + 1, Len(key))
    ELSE key

\* 'count' in str(k).lower()
KeyHasCount(key) == UpperContains(key, "COUNT")

\* Line 145.
IsSingleValue(query_results) == Len(query_results) = 1 /\ Len(query_results[1]) = 1

\* Line 151.
IsCountRow(query_results) ==
    Len(query_results) = 1
    /\ \E i \in 1..Len(query_results[1]) : KeyHasCount(query_results[1][i].k)

\* Line 152: the first key with "count" in it.
CountKeyIndex(row) ==
    CHOOSE i \in 1..Len(row) :
        KeyHasCount(row[i].k) /\ \A j \in 1..(i - 1) : ~KeyHasCount(row[j].k)

\* A context of all the rows.
AllRows(query_results) == query_results

\* query_results[:20]
ContextRows == 20
Context(query_results) == SubSeq(query_results, 1, Min(Len(query_results), ContextRows))

\* str() of the AttributeError of response.content for a response of None.
NoContentError == "'NoneType' object has no attribute 'content'"

\* A _generate_answer without its handler and without the direct formats:
\* the exception of the model leaves the method.
GenerateAnswerUnguarded(question, cypher_query, query_results, llm) ==
    IF query_results = <<>> THEN Done(NoDataMessage, <<>>)
    ELSE IF llm.raised \/ llm.none
    THEN Thrown(IF llm.none THEN NoContentError ELSE llm.detail,
                <<LlmCall("_generate_answer",
                          QaPrompt(question, cypher_query, Context(query_results)), llm)>>)
    ELSE Done(Strip(llm.value),
              <<LlmCall("_generate_answer",
                        QaPrompt(question, cypher_query, Context(query_results)), llm)>>)

\* A _generate_answer that asks the language model whatever the result is.
AnswerByModel(question, cypher_query, query_results, llm) ==
    IF llm.raised \/ llm.none
    THEN Done(<<"Found ">> \o FormatInt(Len(query_results))
                  \o <<" results, but encountered an error formatting the response: ",
                       IF llm.none THEN NoContentError ELSE llm.detail>>,
              <<LlmCall("_generate_answer",
                        QaPrompt(question, cypher_query, Context(query_results)), llm)>>)
    ELSE Done(Strip(llm.value),
              <<LlmCall("_generate_answer",
                        QaPrompt(question, cypher_query, Context(query_results)), llm)>>)

\* _generate_answer(question, cypher_query, query_results): llm is what the
\* language model gives for the synthesis prompt.
GenerateAnswer(question, cypher_query, query_results, llm) ==
    IF query_results = <<>> THEN Done(NoDataMessage, <<>>)
    ELSE IF IsSingleValue(query_results)
    THEN Done(<<"The **">> \o FieldName(query_results[1][1].k) \o <<"** is: **">>
                  \o Str(query_results[1][1].v) \o <<"**">>, <<>>)
    ELSE IF IsCountRow(query_results)
    THEN Done(<<"Found **">>
                  \o Str(query_results[1][CountKeyIndex(query_results[1])].v)
                  \o <<"** items matching your query.">>, <<>>)
    ELSE LET calls == <<LlmCall("_generate_answer",
                                  QaPrompt(question, cypher_query, Context(query_results)),
                                  llm)>>
         IN  IF llm.raised \/ llm.none
             THEN Done(<<"Found ">> \o FormatInt(Len(query_results))
                           \o <<" results, but encountered an error formatting the response: ",
                                IF llm.none THEN NoContentError ELSE llm.detail>>,
                       calls)
             ELSE Done(Strip(llm.value), calls)

(***************************************************************************)
(* NLToCypherQuery.query                                                   *)
(***************************************************************************)

\* What the collaborators give during one call of query().
Env(fetch, gen, explain, db, qa) ==
    [fetch |-> fetch, gen |-> gen, explain |-> explain, db |-> db, qa |-> qa]

EmptyCache == [k \in {} |-> k]

\* self._query_cache[question] = result
CachePut(cache, question, result) ==
    [k \in DOMAIN cache \cup {question} |-> IF k = question THEN result ELSE cache[k]]

\* Line 20.
EmptyQuestionOutcome == [error |-> <<"Empty question provided">>]

\* A return without a value where line 35 returns the error outcome.
NoOutcome == None

\* Line 35.
GenerationFailedOutcome == [error |-> <<"Failed to generate Cypher query">>]

\* Lines 52-58.
SuccessOutcome(question, cypher_query, query_results, answer, validation) ==
    [question |-> question, cypher_query |-> cypher_query,
     query_results |-> query_results, answer |-> answer, validation |-> validation]

\* Lines 67-69.
ProcessingErrorOutcome(question, detail) ==
    [error |-> <<"Error processing query: ", detail>>, question |-> question]

\* The state of one call of query(): what it returns (or the exception on
\* its way out), the two caches, the steps entered and the calls made.
Run(raised, detail, ret, cache, schema, stages, calls) ==
    [raised |-> raised, detail |-> detail, ret |-> ret, cache |-> cache,
     schema |-> schema, stages |-> stages, calls |-> calls]

\* A test of line 19 without its second half.
IsEmptyString(question) == question = <<>>

\* Line 19: not question or not question.strip()
IsBlank(question) == question = <<>> \/ Strip(question) = <<>>

\* Line 25.
CacheHit(question, use_cache, cache) == use_cache /\ question \in DOMAIN cache

\* A test of line 34 that lets the empty string through.
IsNoQueryObject(generated) == generated.isNone

\* Line 34: not cypher_query
NoQuery(generated) == generated.isNone \/ generated.val = <<>>

\* A store of lines 60-62 without the test of use_cache.
AlwaysPut(cache, question, use_cache, result) == CachePut(cache, question, result)

\* Lines 60-62.
CacheAfter(cache, question, use_cache, result) ==
    IF use_cache THEN CachePut(cache, question, result) ELSE cache

\* Lines 52-64: assemble the outcome, store it, return it.  r is the run so
\* far: its ret is the generated query.
Assemble(question, use_cache, r, validation, query_results, answer) ==
    Run(FALSE, "",
        SuccessOutcome(question, r.ret, query_results, answer.value, validation),
        CacheAfter(r.cache, question, use_cache,
                   SuccessOutcome(question, r.ret, query_results, answer.value,
                                  validation)),
        r.schema, r.stages \o <<"synthesize">>, r.calls \o answer.calls)

\* Lines 48-50, then the rest.
AfterSynthesis(question, use_cache, r, validation, query_results, answer) ==
    IF answer.raised
    THEN Run(TRUE, answer.detail, <<>>, r.cache, r.schema,
             r.stages \o <<"synthesize">>, r.calls \o answer.calls)
    ELSE Assemble(question, use_cache, r, validation, query_results, answer)

\* Lines 44-46, then the rest.
AfterExecution(question, use_cache, r, validation, exec, env) ==
    IF exec.raised
    THEN Run(TRUE, exec.detail, <<>>, r.cache, r.schema,
             r.stages \o <<"execute">>, r.calls \o exec.calls)
    ELSE AfterSynthesis(question, use_cache,
                        Run(FALSE, "", r.ret, r.cache, r.schema,
                            r.stages \o <<"execute">>, r.calls \o exec.calls),
                        validation, exec.value,
                        GenerateAnswer(question, r.ret, exec.value, env.qa))

\* A query() that stops when the validation says the query is not valid.
StopWhenInvalid(question, use_cache, r, validation, env) ==
    IF validation.raised \/ ~validation.value.valid
    THEN Run(TRUE, IF validation.raised THEN validation.detail
                   ELSE validation.value.message[1],
             <<>>, r.cache, r.schema,
             r.stages \o <<"validate">>, r.calls \o validation.calls)
    ELSE AfterExecution(question, use_cache,
                        Run(FALSE, "", r.ret, r.cache, r.schema,
                            r.stages \o <<"validate">>, r.calls \o validation.calls),
                        validation.value, ExecuteQuery(r.ret, env.db), env)

\* A query() that runs the query before it looks at the validation.
ExecuteFirst(question, use_cache, r, validation, env) ==
    AfterSynthesis(question, use_cache,
                   Run(FALSE, "", r.ret, r.cache, r.schema,
                       r.stages \o <<"execute", "validate">>,
                       r.calls \o ExecuteQuery(r.ret, env.db).calls
                               \o validation.calls),
                   validation.value, ExecuteQuery(r.ret, env.db).value,
                   GenerateAnswer(question, r.ret, ExecuteQuery(r.ret, env.db).value,
                                  env.qa))

\* Lines 39-42, then the rest.
AfterValidation(question, use_cache, r, validation, env) ==
    IF validation.raised
    THEN Run(TRUE, validation.detail, <<>>, r.cache, r.schema,
             r.stages \o <<"validate">>, r.calls \o validation.calls)
    ELSE AfterExecution(question, use_cache,
                        Run(FALSE, "", r.ret, r.cache, r.schema,
                            r.stages \o <<"validate">>, r.calls \o validation.calls),
                        validation.value, ExecuteQuery(r.ret, env.db), env)

\* A query() without the test of line 34: whatever generation gave goes on
\* to validation.
WithoutQueryTest(question, use_cache, cache, gen, env) ==
    AfterValidation(question, use_cache,
                    Run(FALSE, "", gen.value.val, cache, gen.cache, <<"generate">>,
                        gen.calls),
                    ValidateCypher(gen.value.val, env.explain), env)

\* Lines 32-37, then the rest.
AfterGeneration(question, use_cache, cache, gen, env) ==
    IF gen.raised
    THEN Run(TRUE, gen.detail, <<>>, cache, gen.cache, <<"generate">>, gen.calls)
    ELSE IF NoQuery(gen.value)
    THEN Run(FALSE, "", GenerationFailedOutcome, cache, gen.cache, <<"generate">>,
             gen.calls)
    ELSE AfterValidation(question, use_cache,
                         Run(FALSE, "", gen.value.val, cache, gen.cache, <<"generate">>,
                             gen.calls),
                         ValidateCypher(gen.value.val, env.explain), env)

\* Lines 30-64, the body of the try block, for the trimmed question.
Pipeline(question, use_cache, cache, schema, env) ==
    AfterGeneration(question, use_cache, cache,
                    GenerateCypher(question, schema, env.fetch, env.gen), env)

\* Lines 66-69: the handler of the try block.
Handle(question, r) ==
    IF r.raised
    THEN Run(FALSE, "", ProcessingErrorOutcome(question, r.detail), r.cache,
             r.schema, r.stages, r.calls)
    ELSE r

\* Lines 29-69: the try block and its handler.
TryPipeline(question, use_cache, cache, schema, env) ==
    Handle(question, Pipeline(question, use_cache, cache, schema, env))

\* A query() without line 22: the question is used as it was given.
RunQueryUntrimmed(question, use_cache, cache, schema, env) ==
    IF IsBlank(question)
    THEN Run(FALSE, "", EmptyQuestionOutcome, cache, schema, <<>>, <<>>)
    ELSE IF CacheHit(question, use_cache, cache)
    THEN Run(FALSE, "", cache[question], cache, schema, <<>>, <<>>)
    ELSE TryPipeline(question, use_cache, cache, schema, env)

\* query(question, use_cache)
RunQuery(question, use_cache, cache, schema, env) ==
    IF IsBlank(question)
    THEN Run(FALSE, "", EmptyQuestionOutcome, cache, schema, <<>>, <<>>)
    ELSE IF CacheHit(Strip(question), use_cache, cache)
    THEN Run(FALSE, "", cache[Strip(question)], cache, schema, <<>>, <<>>)
    ELSE TryPipeline(Strip(question), use_cache, cache, schema, env)

\* A clear_cache() that leaves the cache as it is.
Kept(cache) == cache

\* clear_cache(): the cache after self._query_cache.clear()
Cleared(cache) == EmptyCache

\* get_cache_stats(); the list of keys is given as the set of its members.
CacheStats(cache) ==
    [cached_queries |-> Cardinality(DOMAIN cache), cache_keys |-> DOMAIN cache]

(***************************************************************************)
(* The environment: the questions asked and what the collaborators give.   *)
(***************************************************************************)

\* A world: the questions asked, and what each collaborator may give.
World(questions, fetches, gens, explains, dbs, qas) ==
    [questions |-> questions, fetches |-> fetches, gens |-> gens,
     explains |-> explains, dbs |-> dbs, qas |-> qas]

Schema == <<"(:Asset)">>

PlainQuery == <<"MATCH", " ", "(n)", " ", "RETURN", " ", "n">>

\* The model's reply with prose and a fenced query, against its instructions.
FencedReply == <<"Here:", "\n", "'''cypher", "\n">> \o PlainQuery \o <<"\n", "'''", "\n">>

IntValue(n) == [isInt |-> TRUE, n |-> n, s |-> <<>>]
StrValue(s) == [isInt |-> FALSE, n |-> 0, s |-> s]
Field(k, v) == [k |-> k, v |-> v]

\* The rows a query may match in the database.
NameRow == <<Field(<<"a", ".", "Display_Name">>, StrValue(<<"Jane Doe">>))>>
CountRow ==
    <<Field(<<"name">>, StrValue(<<"Asset">>)), Field(<<"total_count">>, IntValue(42))>>
TotalCountRow == <<Field(<<"total_count">>, IntValue(42))>>
LabelRow == <<Field(<<"name">>, StrValue(<<"Asset">>))>>
NodeRow(i) ==
    <<Field(<<"n", ".", "name">>, StrValue(<<"asset">>)),
      Field(<<"n", ".", "id">>, IntValue(i))>>
NodeTable(n) == [i \in 1..n |-> NodeRow(i)]

LlmAnswer == <<" ", "There are assets.", "\n">>

\* The world of the session: two questions that differ in case, one of them
\* also with white space around it, and blank questions; a model and a
\* database that answer or fail.  The EXPLAIN of the validation always
\* answers here: its failures are those of CallWorld.
SessionWorld ==
    World({<<>>, <<" ">>, <<"who">>, <<" ", "who", "\n">>, <<"Who">>},
          {Return(Schema), Raise("ServiceUnavailable")},
          {Return(FencedReply), Return(<<" ", "\n">>), Raise("RateLimitError")},
          {Return(<<>>)},
          {Return(NodeTable(2)), Raise("SyntaxError")},
          {Return(LlmAnswer), Raise("RateLimitError")})

\* The largest table of the database: one row more than the configured
\* maximum at least.
MaxDbRows == 101

\* The world of one call: every kind of reply of the model, every shape of
\* table, every failure.
CallWorld ==
    World({<<>>, <<"who">>, <<" ", "who", "\n">>, <<"Who">>},
          {Return(Schema), Raise("ServiceUnavailable")},
          {Raise("RateLimitError"), Nothing} \cup
              {Return(c) : c \in
                  {<<>>, <<" ", "\n">>, FencedReply,
                   PlainQuery \o <<" ", "LIMIT", " ", "1", "5", "0">>,
                   <<"match", " ", "(n)", " ", "return", " ", "n", " ", "limit", " ", "5">>,
                   <<"MATCH", " ", "(n)", " ", "RETURN", " ", "n.credit_limit">>,
                   <<"MATCH", " ", "(n)", " ", "SET", " ", "n.returned">>,
                   <<"MATCH", " ", "(n)", " ", "DELETE", " ", "n">>}},
          {Return(<<>>), Nothing, Raise("SyntaxError"), Raise("ServiceUnavailable")},
          {Return(t) : t \in {<<>>, <<NameRow>>, <<CountRow>>, <<TotalCountRow>>,
                              <<LabelRow>>, NodeTable(2), NodeTable(MaxDbRows)}}
              \cup {Nothing, Raise("SyntaxError"), Raise("ServiceUnavailable")},
          {Return(LlmAnswer), Nothing, Raise("RateLimitError")})

\* The answers the environment may give to the call made at site, when the
\* run so far makes that call; a call that is not made gets no answer.
Answers(choices, site, run) ==
    IF \E i \in 1..Len(run.calls) : run.calls[i].site = site THEN choices ELSE {Unused}

(***************************************************************************)
(* The state machine                                                       *)
(***************************************************************************)

\* No operation of GraphService was called by itself.
NoArgs == [op |-> "none"]

Init ==
    /\ queryCache = EmptyCache
    /\ schemaCache = None
    /\ lastOp = "init"
    /\ lastQuestion = <<>>
    /\ lastUseCache = FALSE
    /\ lastRet = None
    /\ lastStages = <<>>
    /\ lastCalls = <<>>
    /\ lastArgs = NoArgs
    /\ dropped = {}

QueryWith(question, use_cache, env) ==
    LET r == RunQuery(question, use_cache, queryCache, schemaCache, env)
    IN  /\ queryCache' = r.cache
        /\ schemaCache' = r.schema
        /\ lastOp' = "query"
        /\ lastQuestion' = question
        /\ lastUseCache' = use_cache
        /\ lastRet' = IF r.raised THEN [exception |-> r.detail] ELSE r.ret
        /\ lastStages' = r.stages
        /\ lastCalls' = r.calls
        /\ lastArgs' = NoArgs
        /\ dropped' = IF lastOp = "clear_cache" THEN dropped ELSE {}

\* query(question, use_cache) with every answer the collaborators may give
\* to the calls it makes.
QueryIn(W) ==
    \E question \in W.questions, use_cache \in BOOLEAN :
      LET U == Unused
          Probe(env) == RunQuery(question, use_cache, queryCache, schemaCache, env)
      IN
      \E f \in Answers(W.fetches, "get_schema", Probe(Env(U, U, U, U, U))) :
      \E g \in Answers(W.gens, "_generate_cypher", Probe(Env(f, U, U, U, U))) :
      \E x \in Answers(W.explains, "validate_cypher_syntax", Probe(Env(f, g, U, U, U))) :
      \E d \in Answers(W.dbs, "execute_cypher", Probe(Env(f, g, x, U, U))) :
      \E a \in Answers(W.qas, "_generate_answer", Probe(Env(f, g, x, d, U))) :
          QueryWith(question, use_cache, Env(f, g, x, d, a))

\* A call of query() in the session.
Query == QueryIn(SessionWorld)

\* clear_cache()
ClearCache ==
    /\ queryCache' = Cleared(queryCache)
    /\ dropped' = DOMAIN queryCache
    /\ lastOp' = "clear_cache"
    /\ lastQuestion' = <<>>
    /\ lastUseCache' = FALSE
    /\ lastRet' = None
    /\ lastStages' = <<>>
    /\ lastCalls' = <<>>
    /\ UNCHANGED <<schemaCache, lastArgs>>

\* get_cache_stats()
GetCacheStats ==
    /\ lastOp' = "get_cache_stats"
    /\ lastQuestion' = <<>>
    /\ lastUseCache' = FALSE
    /\ lastRet' = CacheStats(queryCache)
    /\ dropped' = {}
    /\ lastStages' = <<>>
    /\ lastCalls' = <<>>
    /\ UNCHANGED <<queryCache, schemaCache, lastArgs>>

\* A schema of the database after a change of the data model.
LaterSchema == <<"(:Asset)", "(:Domain)">>

\* What reading graph.schema may give.
SchemaFetches == {Return(Schema), Return(LaterSchema), Raise("ServiceUnavailable")}

\* What a method of GraphService gives its caller: the value it returns or
\* the exception that leaves it.
Outcome(r) == IF r.raised THEN [exception |-> r.detail] ELSE [value |-> r.value]

\* The state after a method of GraphService that gave r.
GraphStep(op, args, r) ==
    /\ lastOp' = op
    /\ lastArgs' = args
    /\ lastRet' = Outcome(r)
    /\ lastCalls' = r.calls
    /\ schemaCache' = r.cache
    /\ lastQuestion' = <<>>
    /\ lastUseCache' = FALSE
    /\ lastStages' = <<>>
    /\ dropped' = {}
    /\ UNCHANGED queryCache

\* get_schema_info(): the schema, or the text of lines 176-178 when reading
\* it raised.
GetSchemaInfo(cache, fetch) ==
    LET r == GetSchema(cache, fetch)
    IN  IF r.raised
        THEN [raised |-> FALSE, detail |-> "",
              value |-> <<"Error retrieving schema: ", r.detail>>,
              cache |-> r.cache, calls |-> r.calls]
        ELSE r

\* get_schema_info() in the session; the database is read only when nothing
\* is cached.
GetSchemaInfoCall ==
    \E fetch \in IF schemaCache.isNone THEN SchemaFetches ELSE {Unused} :
        GraphStep("get_schema_info", [op |-> "get_schema_info"],
                  GetSchemaInfo(schemaCache, fetch))

\* refresh_schema()
RefreshSchema ==
    \E fetch \in SchemaFetches :
        GraphStep("refresh_schema", [op |-> "refresh_schema"], RefreshedSchema(fetch))

(***************************************************************************)
(* src/app.py: process_contextual_query, the caller of query() in the      *)
(* application.  The counters of st.session_state.query_stats and the      *)
(* history of the conversation manager it is given are not state of the    *)
(* model: the conversation is an input of the call.                        *)
(***************************************************************************)

\* ConversationManager.get_conversation_context(): for each of the last
\* three interactions the line of the user and, when the response has an
\* answer, the line of the assistant.
RECURSIVE ContextParts(_)
ContextParts(history) ==
    IF history = <<>> THEN <<>>
    ELSE <<<<"User: ">> \o Head(history).user_input>>
         \o (IF "answer" \in DOMAIN Head(history).assistant_response
             THEN <<<<"Assistant: ">> \o Head(history).assistant_response.answer>>
             ELSE <<>>)
         \o ContextParts(Tail(history))

ConversationContext(history) ==
    IF history = <<>> THEN <<>>
    ELSE JoinLines(ContextParts(SubSeq(history, IF Len(history) > 3
                                                THEN Len(history) - 2 ELSE 1,
                                       Len(history))))

\* The eight spaces that indent the lines of the enhanced prompt.
Indent == <<" ", " ", " ", " ", " ", " ", " ", " ">>

\* Lines 278-288: the question sent to query().
EnhancedPrompt(context, prompt) ==
    IF context = <<>> THEN prompt
    ELSE <<"\n">> \o Indent \o <<"Previous conversation context:", "\n">>
         \o Indent \o context \o <<"\n">>
         \o Indent \o <<"\n">>
         \o Indent \o <<"Current question: ">> \o prompt \o <<"\n">>
         \o Indent \o <<"\n">>
         \o Indent
         \o <<"Please consider the previous context when answering this question.",
              "\n">>
         \o Indent

\* The seconds a call took, as line 300 measures them.
ResponseTimes == {1}

\* The readings of the clock of line 317.
MaxClock == 2
Clock == 1..MaxClock

\* Lines 316-317: the two entries written into the dict query() returned.
Stamped(result, response_time, timestamp) ==
    [k \in DOMAIN result \cup {"response_time", "timestamp"} |->
        CASE k = "response_time" -> response_time
          [] k = "timestamp"     -> timestamp
          [] OTHER               -> result[k]]

\* The cache after lines 316-317: query() was called with use_cache true, so
\* an outcome without error is the very dict stored under the trimmed
\* question (stored at line 62, or found at line 27), and writing into it
\* writes into the entry.  An error outcome is a dict of its own.
CacheAfterStamp(cache, question, result, response_time, timestamp) ==
    IF "error" \in DOMAIN result THEN cache
    ELSE [cache EXCEPT ![question] = Stamped(result, response_time, timestamp)]

\* process_contextual_query(prompt, conversation_manager) for a manager
\* whose history is conversation, with the answers env of the collaborators
\* and the readings of the clock.
ProcessWith(prompt, conversation, env, response_time, timestamp) ==
    LET question == EnhancedPrompt(ConversationContext(conversation), prompt)
        r == RunQuery(question, TRUE, queryCache, schemaCache, env)
    IN  /\ queryCache' = IF r.raised THEN r.cache
                         ELSE CacheAfterStamp(r.cache, Strip(question), r.ret,
                                              response_time, timestamp)
        /\ schemaCache' = r.schema
        /\ lastOp' = "process_contextual_query"
        /\ lastQuestion' = question
        /\ lastUseCache' = TRUE
        /\ lastRet' = IF r.raised
                      THEN [error |-> <<"Unexpected error: ", r.detail>>,
                            response_time |-> response_time, timestamp |-> timestamp]
                      ELSE Stamped(r.ret, response_time, timestamp)
        /\ lastStages' = r.stages
        /\ lastCalls' = r.calls
        /\ lastArgs' = NoArgs
        /\ dropped' = IF lastOp = "clear_cache" THEN dropped ELSE {}

\* The conversations a call is given: a new one.  With a history the
\* question sent to query() is the enhanced prompt, another key of the cache.
Conversations == {<<>>}

\* The questions typed into the application.
Prompts == {<<"who">>, <<" ">>}

\* process_contextual_query in the session.
ProcessContextualQuery ==
    \E prompt \in Prompts, conversation \in Conversations,
       response_time \in ResponseTimes, timestamp \in Clock :
      LET U == Unused
          W == SessionWorld
          Probe(env) ==
              RunQuery(EnhancedPrompt(ConversationContext(conversation), prompt), TRUE,
                       queryCache, schemaCache, env)
      IN
      \E f \in Answers(W.fetches, "get_schema", Probe(Env(U, U, U, U, U))) :
      \E g \in Answers(W.gens, "_generate_cypher", Probe(Env(f, U, U, U, U))) :
      \E x \in Answers(W.explains, "validate_cypher_syntax", Probe(Env(f, g, U, U, U))) :
      \E d \in Answers(W.dbs, "execute_cypher", Probe(Env(f, g, x, U, U))) :
      \E a \in Answers(W.qas, "_generate_answer", Probe(Env(f, g, x, d, U))) :
          ProcessWith(prompt, conversation, Env(f, g, x, d, a), response_time, timestamp)

\* The operations of a session: those of NLToCypherQuery, the
\* refresh_schema() the application calls on its graph_service, and the
\* application's process_contextual_query.
Next ==
    \/ Query
    \/ ClearCache
    \/ GetCacheStats
    \/ GetSchemaInfoCall
    \/ RefreshSchema
    \/ ProcessContextualQuery

Spec == Init /\ [][Next]_vars

(***************************************************************************)
(* One call of query() on each state a session can be in when the call     *)
(* starts: a new instance, an instance that has answered and cached a      *)
(* question, that instance after clear_cache(), and that instance after    *)
(* process_contextual_query has put its two fields into the cached         *)
(* outcome.                                                                *)
(***************************************************************************)

AnsweredOnce ==
    RunQuery(<<"who">>, TRUE, EmptyCache, None,
             Env(Return(Schema), Return(FencedReply), Return(<<>>),
                 Return(NodeTable(2)), Return(LlmAnswer)))

InitCall ==
    /\ \E start \in {<<EmptyCache, None>>,
                     <<AnsweredOnce.cache, AnsweredOnce.schema>>,
                     <<EmptyCache, AnsweredOnce.schema>>,
                     <<CacheAfterStamp(AnsweredOnce.cache, <<"who">>,
                                       AnsweredOnce.ret, 1, 1),
                       AnsweredOnce.schema>>} :
          /\ queryCache = start[1]
          /\ schemaCache = start[2]
    /\ lastOp = "init"
    /\ lastQuestion = <<>>
    /\ lastUseCache = FALSE
    /\ lastRet = None
    /\ lastStages = <<>>
    /\ lastCalls = <<>>
    /\ lastArgs = NoArgs
    /\ dropped = {}

\* The one call.
QueryCall == lastOp = "init" /\ QueryIn(CallWorld)

SpecCall == InitCall /\ [][QueryCall]_vars

(***************************************************************************)
(* One call of query() on a new instance for each reply the generation     *)
(* model may give: the sanitization of _clean_cypher_response as query()   *)
(* applies it.                                                             *)
(***************************************************************************)

\* The lines of a reply: prose, prose with backticks inside the line, prose
\* that starts with a clause keyword or with a word that starts with one, a
\* query line, an indented clause, a fence, an empty line.
ReplyLineChoices ==
    {<<"Here:">>,
     <<"Here:", " ", "'''">>,
     <<"With", " ", "nodes:">>,
     <<"Matching", " ", "nodes:">>,
     PlainQuery,
     <<" ", "RETURN", " ", "n">>,
     <<"'''">>,
     <<>>}

MaxReplyLines == 3

\* Replies of more lines: a fenced query after prose, between prose, and
\* with the language named on the fence.
LongReplies ==
    {<<<<"With", " ", "nodes:">>, <<"'''cypher">>, PlainQuery, <<"'''">>>>,
     <<<<"Here:">>, <<"'''">>, PlainQuery, <<" ", "RETURN", " ", "n">>, <<"'''">>,
       <<"Here:">>>>,
     <<<<"Here:">>, <<"'''">>, PlainQuery, <<"'''">>, <<"Matching", " ", "nodes:">>>>,
     <<<<"Here:">>, <<"Here:">>, PlainQuery, <<"Here:">>, <<" ", "RETURN", " ", "n">>>>}

Replies ==
    {JoinLines(ls) :
        ls \in LongReplies
               \cup UNION {[1..k -> ReplyLineChoices] : k \in 1..MaxReplyLines}}

ReplyWorld ==
    World({<<"who">>},
          {Return(Schema)},
          {Return(raw) : raw \in Replies},
          {Return(<<>>)},
          {Return(NodeTable(2))},
          {Return(LlmAnswer)})

\* The one call.
QueryReply == lastOp = "init" /\ QueryIn(ReplyWorld)

SpecReply == Init /\ [][QueryReply]_vars

(***************************************************************************)
(* GraphService.execute_cypher_paginated                                   *)
(***************************************************************************)

\* (page - 1) * page_size
Offset(page_size, page) == (page - 1) * page_size

\* f"SKIP {offset} LIMIT {page_size}"
Pagination(page_size, page) ==
    <<"SKIP", " ">> \o FormatInt(Offset(page_size, page))
        \o <<" ", "LIMIT", " ">> \o FormatInt(page_size)

\* The upper-cased piece u ends with LIMIT.
EndsWithLimit(u) == u \in {"LIMIT", "N.CREDIT_LIMIT"}

\* What is left of a piece that ends with LIMIT, in any case, without it.
BeforeLimit(t) == IF Upper(t) = "N.CREDIT_LIMIT" THEN <<"n.credit_">> ELSE <<>>

\* The longest run of white space s starts with.
RECURSIVE SpaceRun(_)
SpaceRun(s) ==
    IF s # <<>> /\ IsSpace(Head(s)) THEN <<Head(s)>> \o SpaceRun(Tail(s)) ELSE <<>>

\* The length of the match of LIMIT\s+\d+ that ends the first piece of s, as
\* the number of pieces after that piece; 0 without a match.
LimitMatch(s) ==
    IF s # <<>> /\ EndsWithLimit(Upper(Head(s)))
                /\ SpaceRun(Tail(s)) # <<>>
                /\ DigitRun(LStrip(Tail(s))) # <<>>
    THEN Len(SpaceRun(Tail(s))) + Len(DigitRun(LStrip(Tail(s))))
    ELSE 0

\* re.sub(r'LIMIT\s+\d+', repl, text, flags=re.IGNORECASE)
RECURSIVE ReplaceLimits(_, _)
ReplaceLimits(text, repl) ==
    IF text = <<>> THEN <<>>
    ELSE IF LimitMatch(text) > 0
    THEN BeforeLimit(Head(text)) \o repl
             \o ReplaceLimits(SubSeq(text, 2 + LimitMatch(text), Len(text)), repl)
    ELSE <<Head(text)>> \o ReplaceLimits(Tail(text), repl)

\* Lines 109-114: the query with the pagination.
PaginatedQuery(cypher_query, page_size, page) ==
    IF ~UpperContains(cypher_query, "LIMIT")
    THEN cypher_query \o <<" ">> \o Pagination(page_size, page)
    ELSE ReplaceLimits(cypher_query, Pagination(page_size, page))

\* s.split(word)[0] for a word that is a piece: the pieces before the first.
RECURSIVE BeforeFirst(_, _)
BeforeFirst(s, word) ==
    IF s = <<>> \/ Head(s) = word THEN <<>>
    ELSE <<Head(s)>> \o BeforeFirst(Tail(s), word)

\* The pieces after the first piece word of s, which has one.
RECURSIVE AfterFirst(_, _)
AfterFirst(s, word) == IF Head(s) = word THEN Tail(s) ELSE AfterFirst(Tail(s), word)

\* cypher_query.split('RETURN')[0].split('MATCH') has an element 1.
HasMatchPart(cypher_query) ==
    \E i \in 1..Len(BeforeFirst(cypher_query, "RETURN")) :
        BeforeFirst(cypher_query, "RETURN")[i] = "MATCH"

\* cypher_query.split('RETURN')[0].split('MATCH')[1]
MatchPart(cypher_query) ==
    BeforeFirst(AfterFirst(BeforeFirst(cypher_query, "RETURN"), "MATCH"), "MATCH")

\* Line 117.
CountQuery(cypher_query) ==
    <<"MATCH", " ">> \o MatchPart(cypher_query)
        \o <<" ", "RETURN", " ", "count(*)", " ", "as", " ", "total">>

\* str() of the IndexError of line 117.
IndexErrorText == "list index out of range"

\* The row the database returns for a count query over n rows.
TotalRow(n) == <<Field(<<"total">>, IntValue(n))>>

\* Lines 120-123: counted is what graph.query gives for the count query.
TotalCount(results, counted) ==
    IF counted.raised \/ counted.none \/ counted.value = <<>>
    THEN Len(results)
    ELSE counted.value[1][1].v.n

\* (total_count + page_size - 1) // page_size
TotalPages(total_count, page_size) == (total_count + page_size - 1) \div page_size

\* Lines 125-131.
Page(results, page_size, page, total_count) ==
    [results |-> results, page |-> page, page_size |-> page_size,
     total_count |-> total_count, total_pages |-> TotalPages(total_count, page_size)]

\* A method of GraphService that returned or raised, with the schema cache
\* as it leaves it.
Gave(raised, detail, value, calls, cache) ==
    [raised |-> raised, detail |-> detail, value |-> value, calls |-> calls,
     cache |-> cache]

\* The two calls of lines 119 and 121.
PageCall(cypher_query, page_size, page, paged) ==
    DbQueryCall("execute_cypher_paginated", PaginatedQuery(cypher_query, page_size, page),
                paged, Returned(PaginatedQuery(cypher_query, page_size, page), paged))
CountCall(cypher_query, counted) ==
    DbQueryCall("execute_cypher_paginated", CountQuery(cypher_query), counted,
                counted.value)

\* execute_cypher_paginated(cypher_query, page_size, page): paged is what
\* graph.query gives for the paginated query (the rows the query matches
\* without its pagination, or an exception), counted what it gives for the
\* count query.
ExecuteCypherPaginated(cypher_query, page_size, page, paged, counted, cache) ==
    IF ~HasMatchPart(cypher_query)
    THEN Gave(TRUE, IndexErrorText, <<>>, <<>>, cache)
    ELSE IF paged.raised
    THEN Gave(TRUE, paged.detail, <<>>,
              <<PageCall(cypher_query, page_size, page, paged)>>, cache)
    ELSE Gave(FALSE, "",
              Page(Returned(PaginatedQuery(cypher_query, page_size, page), paged),
                   page_size, page,
                   TotalCount(Returned(PaginatedQuery(cypher_query, page_size, page),
                                       paged), counted)),
              <<PageCall(cypher_query, page_size, page, paged),
                CountCall(cypher_query, counted)>>,
              cache)

(***************************************************************************)
(* GraphService called by itself: get_schema(), refresh_schema() and       *)
(* execute_cypher_paginated() on one instance.                             *)
(***************************************************************************)

\* get_schema(); the database is read only when nothing is cached.
GetSchemaCall ==
    \E fetch \in IF schemaCache.isNone THEN SchemaFetches ELSE {Unused} :
        GraphStep("get_schema", [op |-> "get_schema"], GetSchema(schemaCache, fetch))

\* The queries of the paginated calls: plain, with a LIMIT of its own, in
\* lower case, and with a property whose name ends with limit.
PagedQueries ==
    {PlainQuery,
     PlainQuery \o <<" ", "LIMIT", " ", "5">>,
     <<"match", " ", "(n)", " ", "return", " ", "n">>,
     <<"MATCH", " ", "(n)", " ", "RETURN", " ", "n.credit_limit">>}

PageSizes == {1, 2, 10}
MaxPage == 3

\* The rows the queries match: none, a few, and PagedRows.
PagedRows == 25
PagedTables == {NodeTable(0), NodeTable(3), NodeTable(PagedRows)}

\* execute_cypher_paginated(q, page_size, page) on a database where q
\* matches the rows of table; each of the two calls is answered or fails.
\* The method reads and writes no field of the instance, so that a call
\* right after another one reaches nothing new and is left out.
ExecutePaginated ==
    /\ lastOp # "execute_cypher_paginated"
    /\ \E q \in PagedQueries, page_size \in PageSizes, page \in 1..MaxPage,
          table \in PagedTables :
         \E paged \in IF HasMatchPart(q)
                      THEN {Return(table), Raise("ServiceUnavailable")} ELSE {Unused} :
         \E counted \in IF HasMatchPart(q) /\ ~paged.raised
                        THEN {Return(<<TotalRow(Len(table))>>), Return(<<>>), Nothing,
                              Raise("SyntaxError")}
                        ELSE {Unused} :
             GraphStep("execute_cypher_paginated",
                       [op |-> "execute_cypher_paginated", query |-> q,
                        page_size |-> page_size, page |-> page, table |-> table,
                        paged |-> paged, counted |-> counted],
                       ExecuteCypherPaginated(q, page_size, page, paged, counted,
                                              schemaCache))

NextGraph == GetSchemaCall \/ RefreshSchema \/ ExecutePaginated

SpecGraph == Init /\ [][NextGraph]_vars

(***************************************************************************)
(* Properties of query(), clear_cache() and get_cache_stats()              *)
(***************************************************************************)

\* The keys of a complete success outcome.
SuccessKeys == {"question", "cypher_query", "query_results", "answer", "validation"}

IsSuccessOutcome(o) == DOMAIN o = SuccessKeys

IsErrorOutcome(o) == "error" \in DOMAIN o

\* A (possibly empty) sequence of rows: each row a sequence of fields.
RowSequences ==
    Seq(Seq([k : Seq(STRING), v : [isInt : BOOLEAN, n : Nat, s : Seq(STRING)]]))

\* The places of the call log where the method site called a collaborator.
CallsAt(calls, site) == {i \in 1..Len(calls) : calls[i].site = site}

\* The method named stage was entered.
Entered(stages, stage) == \E i \in 1..Len(stages) : stages[i] = stage

\* The piece e is one of the pieces of text.
Appears(e, text) == \E i \in 1..Len(text) : text[i] = e

\* The last operation was a query() that went through the pipeline.
Processed == lastOp = "query" /\ lastStages # <<>>

\* C1 as stated: an outcome that query(q, use_cache=true) stored stays as
\* stored until clear_cache(), whatever is called in between; and a
\* query(q, use_cache=true) for a question whose trimmed text is a key of
\* the cache returns that outcome, enters no step of the pipeline, calls
\* neither the language model nor the database and leaves the cache as it
\* is.
C1_AsStated ==
    [][/\ lastOp' # "clear_cache"
          => \A k \in DOMAIN queryCache :
                k \in DOMAIN queryCache' /\ queryCache'[k] = queryCache[k]
       /\ ( /\ lastOp' = "query"
            /\ lastUseCache'
            /\ ~IsBlank(lastQuestion')
            /\ Strip(lastQuestion') \in DOMAIN queryCache )
          => /\ lastRet' = queryCache[Strip(lastQuestion')]
             /\ lastStages' = <<>>
             /\ lastCalls' = <<>>
             /\ queryCache' = queryCache]_vars

\* C2: query() returns, and never lets an exception out: what it returns is
\* a complete success outcome or an outcome with an error key, and an error
\* outcome is the one of the blank question, the one of the failed
\* generation, or {error: "Error processing query: <detail>", question}.
\* A success outcome has the five keys, and no other when the pipeline made
\* it; one read from the cache has whatever the entry has.
C2_AlwaysAnOutcome ==
    lastOp = "query"
    => /\ "exception" \notin DOMAIN lastRet
       /\ SuccessKeys \subseteq DOMAIN lastRet \/ IsErrorOutcome(lastRet)
       /\ (Processed /\ ~IsErrorOutcome(lastRet)) => IsSuccessOutcome(lastRet)
       /\ IsErrorOutcome(lastRet)
          => \/ lastRet = EmptyQuestionOutcome
             \/ lastRet = GenerationFailedOutcome
             \/ /\ DOMAIN lastRet = {"error", "question"}
                /\ Len(lastRet.error) = 2
                /\ lastRet.error[1] = "Error processing query: "
                /\ lastRet.question = Strip(lastQuestion)

\* Validation and execution both failed, the synthesis model returned
\* nothing or was not needed, and query() returned a success outcome.
C2_Witness ==
    /\ lastOp = "query"
    /\ \E i \in CallsAt(lastCalls, "validate_cypher_syntax") : lastCalls[i].raised
    /\ \E i \in CallsAt(lastCalls, "execute_cypher") : lastCalls[i].raised
    /\ IsSuccessOutcome(lastRet)

\* C3: an outcome of query() without an error key has a non-empty
\* cypher_query, an answer, and a query_results that is a sequence of rows,
\* empty or not; from the cache or freshly computed.
C3_SuccessOutcomeShape ==
    (lastOp = "query" /\ ~IsErrorOutcome(lastRet))
    => /\ {"cypher_query", "answer", "query_results"} \subseteq DOMAIN lastRet
       /\ lastRet.cypher_query # <<>>
       /\ lastRet.answer \in Seq(STRING)
       /\ lastRet.query_results \in RowSequences

\* The database returned None and the outcome has an empty query_results.
C3_Witness ==
    /\ Processed
    /\ \E i \in CallsAt(lastCalls, "execute_cypher") : lastCalls[i].none
    /\ IsSuccessOutcome(lastRet)
    /\ lastRet.query_results = <<>>
    /\ lastRet.cypher_query # <<>>

\* The first query(q, use_cache=true) after clear_cache() for a question
\* that clear_cache() removed.
RepeatAfterClear ==
    /\ lastOp = "clear_cache"
    /\ lastOp' = "query"
    /\ lastUseCache'
    /\ ~IsBlank(lastQuestion')
    /\ Strip(lastQuestion') \in dropped

\* clear_cache() empties the cache and get_cache_stats() then reports no
\* query and no key.
ClearEmpties ==
    /\ lastOp' = "clear_cache" => queryCache' = EmptyCache
    /\ (lastOp = "clear_cache" /\ lastOp' = "get_cache_stats")
       => lastRet' = [cached_queries |-> 0, cache_keys |-> {}]

\* C4: after clear_cache() the cache is empty, and the next
\* query(q, use_cache=true) for a question that was cached is a miss: it
\* invokes generation again, and validation, execution and synthesis as
\* well unless generation gives no usable query.
C4_ClearThenMiss ==
    [][/\ ClearEmpties
       /\ RepeatAfterClear
          => /\ Entered(lastStages', "generate")
             /\ CallsAt(lastCalls', "_generate_cypher") # {}
                \/ \E i \in CallsAt(lastCalls', "get_schema") : lastCalls'[i].raised
             /\ ~IsErrorOutcome(lastRet')
                => /\ Entered(lastStages', "validate")
                   /\ Entered(lastStages', "execute")
                   /\ Entered(lastStages', "synthesize")]_vars

\* C4 as stated: the repeated question always invokes generation, execution
\* and synthesis.
C4_AsStated ==
    [][/\ ClearEmpties
       /\ RepeatAfterClear
          => /\ Entered(lastStages', "generate")
             /\ Entered(lastStages', "execute")
             /\ Entered(lastStages', "synthesize")]_vars

\* A cached question was asked again right after clear_cache() and went
\* through the four steps.
C4_Witness ==
    /\ lastOp = "query"
    /\ lastUseCache
    /\ Strip(lastQuestion) \in dropped
    /\ lastStages = <<"generate", "validate", "execute", "synthesize">>
    /\ CallsAt(lastCalls, "execute_cypher") # {}

\* Generation gave no usable query during the calls logged in calls: the
\* schema fetch failed, the model call failed or returned nothing, or the
\* reply of the model is empty after sanitization.
NoUsableQuery(calls) ==
    \/ \E i \in CallsAt(calls, "get_schema") : calls[i].raised
    \/ \E i \in CallsAt(calls, "_generate_cypher") :
          \/ calls[i].raised
          \/ calls[i].none
          \/ CleanCypherResponse(Strip(calls[i].value)) = <<>>

\* C5: when generation gives no usable query, query() returns an error
\* outcome, enters neither validation nor execution nor synthesis, makes no
\* call but those of generation, and stores nothing in the cache.
C5_GenerationFailureStops ==
    [][(lastOp' = "query" /\ lastStages' # <<>> /\ NoUsableQuery(lastCalls'))
       => /\ IsErrorOutcome(lastRet')
          /\ lastStages' = <<"generate">>
          /\ \A i \in 1..Len(lastCalls') :
                lastCalls'[i].site \in {"get_schema", "_generate_cypher"}
          /\ queryCache' = queryCache]_vars

\* The model replied with white space only: the error outcome of the failed
\* generation, after the generation step alone.
C5_Witness ==
    /\ Processed
    /\ lastUseCache
    /\ \E i \in CallsAt(lastCalls, "_generate_cypher") :
          ~lastCalls[i].raised /\ ~lastCalls[i].none /\ lastCalls[i].value # <<>>
          /\ CleanCypherResponse(Strip(lastCalls[i].value)) = <<>>
    /\ lastRet = GenerationFailedOutcome
    /\ lastStages = <<"generate">>

\* C6: once a non-empty query is generated and validated, whatever the
\* validation said, the query is executed and a success outcome returned,
\* whose validation is {valid: false, message: <error text>} when the
\* EXPLAIN call raised, and the verdict of a valid query otherwise.
C6_ValidationNeverBlocks ==
    \A i \in CallsAt(lastCalls, "validate_cypher_syntax") :
        lastOp = "query"
        => /\ IsSuccessOutcome(lastRet)
           /\ lastCalls[i].arg = <<"EXPLAIN", " ">> \o lastRet.cypher_query
           /\ Entered(lastStages, "execute")
           /\ \E j \in CallsAt(lastCalls, "execute_cypher") :
                 j > i /\ lastCalls[j].arg = WithResultLimit(lastRet.cypher_query)
           /\ lastRet.validation =
                 IF lastCalls[i].raised
                 THEN [valid |-> FALSE, message |-> <<lastCalls[i].detail>>]
                 ELSE [valid |-> TRUE, message |-> ValidMessage]

\* The EXPLAIN call raised, the query was executed all the same and
\* returned rows.
C6_Witness ==
    /\ Processed
    /\ \E i \in CallsAt(lastCalls, "validate_cypher_syntax") :
          lastCalls[i].raised /\ lastRet.validation.message = <<lastCalls[i].detail>>
    /\ \E j \in CallsAt(lastCalls, "execute_cypher") : ~lastCalls[j].raised
    /\ IsSuccessOutcome(lastRet)
    /\ lastRet.query_results # <<>>

\* What query() returns when the database fails the query with the error
\* text lastCalls[i].detail, but for the place of the error text.
DegradedToNoData(i) ==
    /\ IsSuccessOutcome(lastRet)
    /\ Entered(lastStages, "synthesize")
    /\ CallsAt(lastCalls, "_generate_answer") = {}
    /\ lastRet.query_results = <<>>
    /\ lastRet.answer = NoDataMessage

\* C7: when the database fails the generated query, query() goes on to
\* synthesis and returns a success outcome with an empty query_results and
\* the fixed no-data message as answer; the error text is in none of
\* question, cypher_query, query_results and answer.
C7_ExecutionFailureIsNoData ==
    \A i \in CallsAt(lastCalls, "execute_cypher") :
        (lastOp = "query" /\ lastCalls[i].raised)
        => /\ DegradedToNoData(i)
           /\ ~Appears(lastCalls[i].detail, lastRet.question)
           /\ ~Appears(lastCalls[i].detail, lastRet.cypher_query)
           /\ ~Appears(lastCalls[i].detail, lastRet.answer)

\* C7 as stated: the error text is nowhere in the outcome, the validation
\* verdict included.
C7_AsStated ==
    \A i \in CallsAt(lastCalls, "execute_cypher") :
        (lastOp = "query" /\ lastCalls[i].raised)
        => /\ DegradedToNoData(i)
           /\ ~Appears(lastCalls[i].detail, lastRet.question)
           /\ ~Appears(lastCalls[i].detail, lastRet.cypher_query)
           /\ ~Appears(lastCalls[i].detail, lastRet.answer)
           /\ ~Appears(lastCalls[i].detail, lastRet.validation.message)

\* The database accepted the EXPLAIN query and then failed the query.
C7_Witness ==
    /\ Processed
    /\ \E i \in CallsAt(lastCalls, "validate_cypher_syntax") : ~lastCalls[i].raised
    /\ \E i \in CallsAt(lastCalls, "execute_cypher") :
          lastCalls[i].raised /\ lastCalls[i].detail = "ServiceUnavailable"
    /\ IsSuccessOutcome(lastRet)
    /\ lastRet.answer = NoDataMessage

\* C8: when the model call of the synthesis fails, query() returns a
\* complete success outcome: the trimmed question, the query that was
\* executed, the rows the database returned, and as answer the template
\* with the number of rows and the error text.
C8_SynthesisFailureTemplated ==
    \A i \in CallsAt(lastCalls, "_generate_answer") :
        (lastOp = "query" /\ (lastCalls[i].raised \/ lastCalls[i].none))
        => /\ IsSuccessOutcome(lastRet)
           /\ lastRet.question = Strip(lastQuestion)
           /\ lastCalls[i].arg = QaPrompt(lastRet.question, lastRet.cypher_query,
                                          Context(lastRet.query_results))
           /\ \E j \in CallsAt(lastCalls, "execute_cypher") :
                 /\ lastCalls[j].arg = WithResultLimit(lastRet.cypher_query)
                 /\ lastCalls[j].value = lastRet.query_results
           /\ lastRet.answer =
                 <<"Found ">> \o FormatInt(Len(lastRet.query_results))
                     \o <<" results, but encountered an error formatting the response: ",
                          IF lastCalls[i].none THEN NoContentError
                          ELSE lastCalls[i].detail>>

\* The synthesis model raised on a result of more than twenty rows.
C8_Witness ==
    /\ Processed
    /\ \E i \in CallsAt(lastCalls, "_generate_answer") :
          lastCalls[i].raised /\ Appears(lastCalls[i].detail, lastRet.answer)
    /\ IsSuccessOutcome(lastRet)
    /\ Len(lastRet.query_results) > ContextRows

\* C9 as stated: the query_results of an outcome has at most the configured
\* maximum of rows, and so has every result the database call of execution
\* returned.
C9_AsStated ==
    lastOp = "query"
    => /\ IsSuccessOutcome(lastRet) => Len(lastRet.query_results) <= MAX_QUERY_RESULTS
       /\ \A i \in CallsAt(lastCalls, "execute_cypher") :
             Len(lastCalls[i].value) <= MAX_QUERY_RESULTS

\* The text execution has to send for the generated query, by its clauses.
SentByClauses(cypher_query) ==
    IF HasReturnClause(cypher_query) /\ ~HasLimitClause(cypher_query)
    THEN cypher_query \o <<" ", "LIMIT", " ">> \o FormatInt(MAX_QUERY_RESULTS)
    ELSE cypher_query

\* C10 as stated: the text sent to the database is the generated query
\* followed by " LIMIT <max>" when the query has a RETURN clause and no
\* LIMIT clause, and the generated query itself otherwise.
C10_AsStated ==
    \A i \in CallsAt(lastCalls, "execute_cypher") :
        (lastOp = "query" /\ IsSuccessOutcome(lastRet))
        => lastCalls[i].arg = SentByClauses(lastRet.cypher_query)

\* The question is empty or has white space only.
WhitespaceOnly(question) == \A i \in 1..Len(question) : IsSpace(question[i])

\* C11: query() answers an empty or whitespace-only question with the error
\* outcome of the empty question, calls neither the language model nor the
\* database, enters no step, and leaves the cache as it is.
C11_BlankQuestionRejected ==
    [][(lastOp' = "query" /\ WhitespaceOnly(lastQuestion'))
       => /\ lastRet' = EmptyQuestionOutcome
          /\ IsErrorOutcome(lastRet')
          /\ lastCalls' = <<>>
          /\ lastStages' = <<>>
          /\ queryCache' = queryCache
          /\ schemaCache' = schemaCache]_vars

\* A question of one space was rejected while the cache held an outcome.
C11_Witness ==
    /\ lastOp = "query"
    /\ lastQuestion = <<" ">>
    /\ lastRet = EmptyQuestionOutcome
    /\ lastCalls = <<>>
    /\ queryCache # EmptyCache

\* A query(q, use_cache=false) for a question that is not blank.
UncachedQuery ==
    lastOp' = "query" /\ ~lastUseCache' /\ ~WhitespaceOnly(lastQuestion')

\* C12: query(q, use_cache=false) leaves the cache as it is and does not
\* answer from it: it invokes generation, and validation, execution and
\* synthesis as well unless generation gives no usable query, also when the
\* trimmed q is a key of the cache.
C12_UncachedQueryBypassesCache ==
    [][UncachedQuery
       => /\ queryCache' = queryCache
          /\ Entered(lastStages', "generate")
          /\ CallsAt(lastCalls', "_generate_cypher") # {}
             \/ \E i \in CallsAt(lastCalls', "get_schema") : lastCalls'[i].raised
          /\ ~IsErrorOutcome(lastRet')
             => /\ Entered(lastStages', "validate")
                /\ Entered(lastStages', "execute")
                /\ Entered(lastStages', "synthesize")]_vars

\* C12 as stated: the call always runs generation, execution and synthesis.
C12_AsStated ==
    [][UncachedQuery
       => /\ queryCache' = queryCache
          /\ Entered(lastStages', "generate")
          /\ Entered(lastStages', "execute")
          /\ Entered(lastStages', "synthesize")]_vars

\* A cached question was asked with use_cache=false, went through the four
\* steps, and got an outcome that differs from the cached one, which stays.
C12_Witness ==
    /\ lastOp = "query"
    /\ ~lastUseCache
    /\ Strip(lastQuestion) \in DOMAIN queryCache
    /\ lastStages = <<"generate", "validate", "execute", "synthesize">>
    /\ IsSuccessOutcome(lastRet)
    /\ lastRet.query_results # queryCache[Strip(lastQuestion)].query_results

\* The one fetch of the schema a call made, and what the call gave for it:
\* the fetched description, cached, or the exception of the fetch with
\* nothing cached.
FetchedOnce ==
    /\ Len(lastCalls') = 1
    /\ lastCalls'[1].site = "get_schema"
    /\ lastCalls'[1].op = "schema"
    /\ IF lastCalls'[1].raised
       THEN lastRet' = [exception |-> lastCalls'[1].detail] /\ schemaCache' = None
       ELSE /\ lastRet' = [value |-> lastCalls'[1].value]
            /\ schemaCache' = Some(lastCalls'[1].value)

\* C13: get_schema() with a cached description returns it without a call
\* to the database and keeps it; get_schema() with nothing cached and
\* refresh_schema() fetch exactly once, return and cache the fetched
\* description, or raise the exception of the fetch and cache nothing; no
\* other operation changes the cached description.
C13_SchemaFetchedOncePerRefresh ==
    [][/\ (lastOp' = "get_schema" /\ ~schemaCache.isNone)
          => /\ lastRet' = [value |-> schemaCache.val]
             /\ lastCalls' = <<>>
             /\ schemaCache' = schemaCache
       /\ (lastOp' = "get_schema" /\ schemaCache.isNone) => FetchedOnce
       /\ lastOp' = "refresh_schema" => FetchedOnce
       /\ lastOp' \notin {"get_schema", "refresh_schema"}
          => schemaCache' = schemaCache]_vars

\* refresh_schema() replaced a cached description by a later one.
C13_Witness ==
    /\ lastOp = "refresh_schema"
    /\ schemaCache = Some(LaterSchema)
    /\ lastRet = [value |-> LaterSchema]
    /\ Len(lastCalls) = 1

\* The last operation was execute_cypher_paginated() on a database that
\* answers the paginated query whenever it is sent.
PagedCall ==
    /\ lastOp = "execute_cypher_paginated"
    /\ lastArgs.paged \in {Unused, Return(lastArgs.table)}

\* The count query is answered with the number of matched rows whenever it
\* is sent.
CountAnswered ==
    lastArgs.counted \in {Unused, Return(<<TotalRow(Len(lastArgs.table))>>)}

\* The count query is sent and answered with the number of matched rows.
Counted == lastArgs.counted = Return(<<TotalRow(Len(lastArgs.table))>>)

\* ceil(n / d)
CeilDiv(n, d) == CHOOSE k \in 0..n : k * d >= n /\ (k - 1) * d < n

\* Rows (page-1)*page_size+1 .. min(page*page_size, N) of the matched rows.
PageRows(table, page_size, page) ==
    SubSeq(table, (page - 1) * page_size + 1, Min(page * page_size, Len(table)))

\* C19 as stated: for every query, execute_cypher_paginated returns rows
\* (page-1)*page_size+1 .. min(page*page_size, N) of the N matched rows as
\* results, total_count = N and total_pages = ceil(N / page_size).
C19_AsStated ==
    (PagedCall /\ CountAnswered)
    => /\ "value" \in DOMAIN lastRet
       /\ lastRet.value.results =
             PageRows(lastArgs.table, lastArgs.page_size, lastArgs.page)
       /\ lastRet.value.total_count = Len(lastArgs.table)
       /\ lastRet.value.total_pages = CeilDiv(Len(lastArgs.table), lastArgs.page_size)

\* C20 as stated: whenever the count query cannot be produced or fails,
\* execute_cypher_paginated still returns the page, with total_count the
\* number of rows of the page and total_pages computed from it.
C20_AsStated ==
    (PagedCall /\ ~Counted)
    => /\ "value" \in DOMAIN lastRet
       /\ lastRet.value.results =
             Neo4jRows(PaginatedQuery(lastArgs.query, lastArgs.page_size, lastArgs.page),
                       lastArgs.table)
       /\ lastRet.value.total_count = Len(lastRet.value.results)
       /\ lastRet.value.total_pages =
             CeilDiv(Len(lastRet.value.results), lastArgs.page_size)

\* The place of the first field of row whose key contains "count".
FirstCountField(row) ==
    CHOOSE i \in 1..Len(row) :
        UpperContains(row[i].k, "COUNT")
        /\ \A j \in 1..(i - 1) : ~UpperContains(row[j].k, "COUNT")

\* C14 as stated: for a result of exactly one row with a key that contains
\* "count", also when that key is the only field of the row, the answer is
\* "Found **<value>** items matching your query.".
C14_AsStated ==
    ( /\ lastOp = "query"
      /\ IsSuccessOutcome(lastRet)
      /\ Len(lastRet.query_results) = 1
      /\ \E i \in 1..Len(lastRet.query_results[1]) :
            UpperContains(lastRet.query_results[1][i].k, "COUNT") )
    => lastRet.answer =
          <<"Found **">>
              \o Str(lastRet.query_results[1][FirstCountField(lastRet.query_results[1])].v)
              \o <<"** items matching your query.">>

\* The last dot-separated segment of a column name, the whole name when it
\* has no dot.
LastSegment(key) ==
    SubSeq(key,
           CHOOSE i \in 1..(Len(key) + 1) :
               (i = 1 \/ key[i - 1] = ".") /\ \A j \in i..Len(key) : key[j] # ".",
           Len(key))

\* C15: for a result of exactly one row with exactly one field the answer is
\* "The **<field-name>** is: **<value>**", the field name being the last
\* dot-separated segment of the column name, and the language model is not
\* called for the answer.
C15_SingleValueAnswer ==
    ( /\ lastOp = "query"
      /\ IsSuccessOutcome(lastRet)
      /\ Len(lastRet.query_results) = 1
      /\ Len(lastRet.query_results[1]) = 1 )
    => /\ lastRet.answer =
             <<"The **">> \o LastSegment(lastRet.query_results[1][1].k)
                 \o <<"** is: **">> \o Str(lastRet.query_results[1][1].v) \o <<"**">>
       /\ CallsAt(lastCalls, "_generate_answer") = {}

\* The row {"a.Display_Name": "Jane Doe"} was answered directly.
C15_Witness ==
    /\ Processed
    /\ IsSuccessOutcome(lastRet)
    /\ lastRet.query_results = <<NameRow>>
    /\ lastRet.answer = <<"The **", "Display_Name", "** is: **", "Jane Doe", "**">>
    /\ CallsAt(lastCalls, "_generate_answer") = {}

\* C16: for an empty result the answer is the fixed no-data message, for
\* every question and every query, and the language model is not called
\* for the answer.
C16_EmptyResultAnswer ==
    (lastOp = "query" /\ IsSuccessOutcome(lastRet) /\ lastRet.query_results = <<>>)
    => /\ lastRet.answer = NoDataMessage
       /\ CallsAt(lastCalls, "_generate_answer") = {}

\* The database answered with no row, and the answer is the fixed message.
C16_Witness ==
    /\ Processed
    /\ \E i \in CallsAt(lastCalls, "execute_cypher") :
          ~lastCalls[i].raised /\ ~lastCalls[i].none /\ lastCalls[i].value = <<>>
    /\ lastRet.question = <<"Who">>
    /\ IsSuccessOutcome(lastRet)
    /\ lastRet.answer = NoDataMessage

\* The places of the lines of a reply that are fence lines.
FenceLines(lines) == {i \in 1..Len(lines) : LineStartsWithFence(lines[i])}

\* The reply has one fenced block, whose first line starts with a clause
\* keyword.
HasKeywordBlock(lines) ==
    /\ Cardinality(FenceLines(lines)) = 2
    /\ \E i \in FenceLines(lines) :
          i + 1 \in 1..Len(lines) /\ i + 1 \notin FenceLines(lines)
          /\ LineStartsWithKeyword(lines[i + 1])
          /\ \E j \in FenceLines(lines) : j > i + 1

\* The lines between the two fence lines.
BlockLines(lines) ==
    LET a == CHOOSE i \in FenceLines(lines) : \A j \in FenceLines(lines) : i <= j
        b == CHOOSE i \in FenceLines(lines) : \A j \in FenceLines(lines) : j <= i
    IN  SubSeq(lines, a + 1, b - 1)

\* C17 as stated: for a reply with a fenced block whose content starts with
\* a clause keyword, the query is the lines inside the fence, all of them
\* and nothing else, whatever surrounds the fence.
C17_AsStated ==
    \A i \in CallsAt(lastCalls, "_generate_cypher") :
        ( /\ lastOp = "query"
          /\ ~lastCalls[i].raised /\ ~lastCalls[i].none
          /\ HasKeywordBlock(SplitLines(lastCalls[i].value)) )
        => /\ IsSuccessOutcome(lastRet)
           /\ lastRet.cypher_query =
                 Strip(JoinLines(BlockLines(SplitLines(lastCalls[i].value))))

\* The place of the first line that starts with a clause keyword.
FirstKeywordLine(lines) ==
    CHOOSE k \in 1..Len(lines) :
        LineStartsWithKeyword(lines[k])
        /\ \A j \in 1..(k - 1) : ~LineStartsWithKeyword(lines[j])

\* C18: for a reply without fences that has a line starting with a clause
\* keyword, the query is the lines from the first such line to the end, in
\* order and as they are but for the trimming of the whole, and no line
\* before it.
C18_ProseBeforeQueryDropped ==
    \A i \in CallsAt(lastCalls, "_generate_cypher") :
        ( /\ lastOp = "query"
          /\ ~lastCalls[i].raised /\ ~lastCalls[i].none
          /\ ~HasFence(lastCalls[i].value)
          /\ \E k \in 1..Len(SplitLines(lastCalls[i].value)) :
                LineStartsWithKeyword(SplitLines(lastCalls[i].value)[k]) )
        => /\ IsSuccessOutcome(lastRet)
           /\ lastRet.cypher_query =
                 Strip(JoinLines(SubSeq(SplitLines(lastCalls[i].value),
                                        FirstKeywordLine(SplitLines(lastCalls[i].value)),
                                        Len(SplitLines(lastCalls[i].value)))))

\* Two prose lines, a query line, a prose line and an indented clause: the
\* query is the last three lines.
C18_Witness ==
    /\ Processed
    /\ \E i \in CallsAt(lastCalls, "_generate_cypher") :
          SplitLines(lastCalls[i].value) =
              <<<<"Here:">>, <<"Here:">>, PlainQuery, <<"Here:">>,
                <<" ", "RETURN", " ", "n">>>>
    /\ IsSuccessOutcome(lastRet)
    /\ lastRet.cypher_query =
          PlainQuery \o <<"\n", "Here:", "\n", " ", "RETURN", " ", "n">>

\* No line of the text starts with a clause keyword.
NoKeywordLine(text) ==
    \A k \in 1..Len(SplitLines(text)) : ~LineStartsWithKeyword(SplitLines(text)[k])

\* C21 as stated: when no line of the model's reply starts with a clause
\* keyword, the query is the trimmed reply unchanged, fences included: a
\* reply that is not blank gives a success outcome whose cypher_query is the
\* trimmed reply, a blank one the generation failure.
C21_AsStated ==
    \A i \in CallsAt(lastCalls, "_generate_cypher") :
        ( /\ lastOp = "query"
          /\ ~lastCalls[i].raised /\ ~lastCalls[i].none
          /\ NoKeywordLine(lastCalls[i].value) )
        => IF Strip(lastCalls[i].value) = <<>>
           THEN lastRet = GenerationFailedOutcome
           ELSE /\ IsSuccessOutcome(lastRet)
                /\ lastRet.cypher_query = Strip(lastCalls[i].value)

\* The result is not empty, is not one row of one field and is not one row
\* with a key that has "count" in it.
OtherShape(rows) ==
    /\ rows # <<>>
    /\ ~(Len(rows) = 1 /\ Len(rows[1]) = 1)
    /\ ~(Len(rows) = 1 /\ \E f \in 1..Len(rows[1]) : KeyHasCount(rows[1][f].k))

\* C22: in a query() that reaches synthesis, a result of the fourth shape
\* makes _generate_answer call the language model exactly once, with the
\* prompt of the trimmed question, the generated query and the first 20 rows
\* at most, and the answer is the model's trimmed text when the model gives
\* one; a result of one of the three other shapes makes it call nothing.
C22_ModelCalledOnceForOtherShapes ==
    (lastOp = "query" /\ Entered(lastStages, "synthesize"))
    => /\ IsSuccessOutcome(lastRet)
       /\ IF OtherShape(lastRet.query_results)
          THEN /\ Cardinality(CallsAt(lastCalls, "_generate_answer")) = 1
               /\ \A i \in CallsAt(lastCalls, "_generate_answer") :
                     /\ lastCalls[i].target = "llm"
                     /\ lastCalls[i].arg.template = "qa"
                     /\ lastCalls[i].arg.question = Strip(lastQuestion)
                     /\ lastCalls[i].arg.query = lastRet.cypher_query
                     /\ Len(lastCalls[i].arg.context)
                           = Min(Len(lastRet.query_results), 20)
                     /\ \A j \in 1..Len(lastCalls[i].arg.context) :
                           lastCalls[i].arg.context[j] = lastRet.query_results[j]
                     /\ (~lastCalls[i].raised /\ ~lastCalls[i].none)
                           => lastRet.answer = Strip(lastCalls[i].value)
          ELSE CallsAt(lastCalls, "_generate_answer") = {}

\* More than 20 rows came back, the model was asked once about the first 20
\* and its reply, trimmed, is the answer.
C22_Witness ==
    /\ Processed
    /\ IsSuccessOutcome(lastRet)
    /\ Len(lastRet.query_results) > 20
    /\ \E i \in CallsAt(lastCalls, "_generate_answer") :
          /\ Len(lastCalls[i].arg.context) = 20
          /\ lastCalls[i].value = LlmAnswer
          /\ lastRet.answer = <<"There are assets.">>

\* The place of a method in the order of query().
SiteRank(site) ==
    CASE site = "get_schema"             -> 0
      [] site = "_generate_cypher"       -> 1
      [] site = "validate_cypher_syntax" -> 2
      [] site = "execute_cypher"         -> 3
      [] site = "_generate_answer"       -> 4

\* The call at place i of the log returned a value.
Answered(i) == ~lastCalls[i].raised /\ ~lastCalls[i].none

\* C23: in a query() that goes through the pipeline the collaborator calls
\* are made one after another in the order schema, generation, validation,
\* execution, synthesis, each method calling once at most and no call being
\* made after a generation that gave no reply; the validation and the
\* execution are sent the query made from the generation's reply (after
\* EXPLAIN, and with the result limit when execute_cypher adds it), the
\* synthesis is given the rows the execution returned, and the language
\* model is called 3 times at most.
C23_CallsInOrder ==
    Processed
    => /\ \E n \in 1..4 :
             lastStages = SubSeq(<<"generate", "validate", "execute", "synthesize">>, 1, n)
       /\ \A i, j \in 1..Len(lastCalls) :
             i < j => SiteRank(lastCalls[i].site) < SiteRank(lastCalls[j].site)
       /\ \A i, j \in 1..Len(lastCalls) :
             (i < j /\ lastCalls[j].site # "_generate_cypher")
             => (lastCalls[i].site \in {"get_schema", "_generate_cypher"} => Answered(i))
       /\ \A j \in 1..Len(lastCalls) :
             lastCalls[j].site \in {"validate_cypher_syntax", "execute_cypher",
                                    "_generate_answer"}
             => \E g \in CallsAt(lastCalls, "_generate_cypher") :
                   /\ g < j
                   /\ Answered(g)
                   /\ IsSuccessOutcome(lastRet)
                   /\ lastRet.cypher_query = CleanCypherResponse(Strip(lastCalls[g].value))
       /\ \A v \in CallsAt(lastCalls, "validate_cypher_syntax") :
             lastCalls[v].arg = <<"EXPLAIN", " ">> \o lastRet.cypher_query
       /\ \A e \in CallsAt(lastCalls, "execute_cypher") :
             /\ lastCalls[e].arg \in
                   {lastRet.cypher_query,
                    lastRet.cypher_query \o <<" ", "LIMIT", " ", "1", "0", "0">>}
             /\ lastRet.query_results = IF Answered(e) THEN lastCalls[e].value ELSE <<>>
       /\ \A a \in CallsAt(lastCalls, "_generate_answer") :
             /\ lastCalls[a].arg.query = lastRet.cypher_query
             /\ \E e \in CallsAt(lastCalls, "execute_cypher") :
                   /\ e < a
                   /\ Answered(e)
                   /\ lastCalls[a].arg.context
                         = SubSeq(lastCalls[e].value, 1, Min(Len(lastCalls[e].value), 20))
       /\ Cardinality({i \in 1..Len(lastCalls) : lastCalls[i].target = "llm"}) <= 3

\* A run with the five calls: the schema is read, the model gives a query,
\* the database explains it and runs it, the model words the answer.
C23_Witness ==
    /\ Processed
    /\ Len(lastCalls) = 5
    /\ \A i \in 1..5 : lastCalls[i].site =
          <<"get_schema", "_generate_cypher", "validate_cypher_syntax",
            "execute_cypher", "_generate_answer">>[i]
    /\ lastStages = <<"generate", "validate", "execute", "synthesize">>
    /\ Cardinality({i \in 1..Len(lastCalls) : lastCalls[i].target = "llm"}) = 2
    /\ lastCalls[3].arg = <<"EXPLAIN", " ">> \o PlainQuery
    /\ lastCalls[4].value = NodeTable(2)
    /\ lastCalls[5].arg.context = NodeTable(2)

\* The text has no white space at either end.
Trimmed(text) ==
    text = <<>> \/ (~IsSpace(text[1]) /\ ~IsSpace(text[Len(text)]))

\* C24: every key of the query cache is a question that is not empty and
\* has no white space at either end; the outcome stored under it has no
\* error key and its question is the key.  A query(q, use_cache=true) that
\* gives a success outcome leaves it under the trimmed q, so questions that
\* differ in the white space around them share the entry and no others do;
\* one that gives an error outcome after a miss leaves no entry for q.
C24_CacheKeysAreTrimmedQuestions ==
    /\ \A k \in DOMAIN queryCache :
          /\ k # <<>>
          /\ Trimmed(k)
          /\ ~IsErrorOutcome(queryCache[k])
          /\ SuccessKeys \subseteq DOMAIN queryCache[k]
          /\ queryCache[k].question = k
    /\ (lastOp = "query" /\ lastUseCache /\ ~IsErrorOutcome(lastRet))
          => /\ Strip(lastQuestion) \in DOMAIN queryCache
             /\ queryCache[Strip(lastQuestion)] = lastRet
             /\ lastRet.question = Strip(lastQuestion)
    /\ (lastOp = "query" /\ lastUseCache /\ Processed /\ IsErrorOutcome(lastRet))
          => Strip(lastQuestion) \notin DOMAIN queryCache

\* "who" and "Who" have an entry each, and the question " who\n" was
\* answered from the entry of "who".
C24_Witness ==
    /\ lastOp = "query"
    /\ lastUseCache
    /\ lastQuestion = <<" ", "who", "\n">>
    /\ lastStages = <<>>
    /\ DOMAIN queryCache = {<<"who">>, <<"Who">>}
    /\ lastRet = queryCache[<<"who">>]
    /\ queryCache[<<"Who">>].question = <<"Who">>

\* The execution of the last query() failed: the database raised or
\* returned None.
ExecutionFailed ==
    \E e \in CallsAt(lastCalls, "execute_cypher") : lastCalls[e].raised \/ lastCalls[e].none

\* C25 as stated: a query(q, use_cache=true) that runs the pipeline while
\* the execution fails stores its outcome, with no rows and the "no data found"
\* answer, under q; an entry of the cache stays as it is through every
\* operation but clear_cache(); and a query(q, use_cache=true) for a key of
\* the cache returns the entry and calls neither the database nor the
\* model, whatever they would answer.  So the failure is answered again and
\* again until the cache is cleared.
C25_AsStated ==
    [][ /\ (lastOp' = "query" /\ lastUseCache' /\ ExecutionFailed')
            => /\ IsSuccessOutcome(lastRet')
               /\ lastRet'.query_results = <<>>
               /\ lastRet'.answer = NoDataMessage
               /\ Strip(lastQuestion') \in DOMAIN queryCache'
               /\ queryCache'[Strip(lastQuestion')] = lastRet'
        /\ lastOp' # "clear_cache"
            => \A k \in DOMAIN queryCache :
                  k \in DOMAIN queryCache' /\ queryCache'[k] = queryCache[k]
        /\ (lastOp' = "query" /\ lastUseCache'
              /\ Strip(lastQuestion') \in DOMAIN queryCache)
            => /\ lastRet' = queryCache[Strip(lastQuestion')]
               /\ lastCalls' = <<>>
               /\ lastStages' = <<>>
      ]_vars

\* C26 as stated: sanitizing a sanitized reply changes nothing.  The query
\* of a success outcome is the sanitized reply of the generation model, and
\* _clean_cypher_response gives it back when applied to it.
C26_AsStated ==
    \A g \in CallsAt(lastCalls, "_generate_cypher") :
        (lastOp = "query" /\ Answered(g))
        => CleanCypherResponse(CleanCypherResponse(Strip(lastCalls[g].value)))
              = CleanCypherResponse(Strip(lastCalls[g].value))

====
